---- MODULE Spec2Model ----
(***************************************************************************)
(* Model of cltk's corpus importer (cltk/corpus/utils/importer.py).        *)
(*                                                                         *)
(* Python strings are sequences of one-character strings, so that          *)
(* str.lower, str.rstrip, os.path.split, os.path.join and urljoin are      *)
(* computed character by character.  The filesystem is a function from    *)
(* the existing absolute paths (sequences of path components) to "dir" or  *)
(* to the content tag of a regular file.                                   *)
(*                                                                         *)
(* Spec runs whole calls one after the other, SpecSteps interleaves two    *)
(* processes statement by statement, SpecCrash lets one process die inside *)
(* a call, and SpecLookup runs the descriptor lookup on given lists.       *)
(***************************************************************************)
EXTENDS Integers, Sequences, FiniteSets, TLC

\* fs:       the filesystem (the data root and the caller's source trees)
\* importer: the language of the CorpusImporter the caller holds
\* last:     the last call: its arguments, the exception it raised, the
\*           operations it issued, its log lines and the filesystem before it
\* prev:     the import_corpus call before the last one, in the same form
\* calls:    the number of calls made
\* lookup:   a descriptor list, a corpus name and the outcome of resolving the
\*           name in the list
\* inflight: per process, the import_corpus invocation it is executing: the
\*           statement it is at and its local variables
\* races:    the overlaps of two invocations on one directory seen so far
VARIABLES fs, importer, last, prev, calls, lookup, inflight, races

vars == <<fs, importer, last, prev, calls, lookup, inflight, races>>

(***************************************************************************)
(* String literals of the program.                                         *)
(***************************************************************************)
s_chinese == <<"c", "h", "i", "n", "e", "s", "e">>
s_coptic == <<"c", "o", "p", "t", "i", "c">>
s_greek == <<"g", "r", "e", "e", "k">>
s_latin == <<"l", "a", "t", "i", "n">>
s_multilingual == <<"m", "u", "l", "t", "i", "l", "i", "n", "g", "u", "a", "l">>
s_pali == <<"p", "a", "l", "i">>
s_tibetan == <<"t", "i", "b", "e", "t", "a", "n">>
s_sanskrit == <<"s", "a", "n", "s", "k", "r", "i", "t">>
s_remote == <<"r", "e", "m", "o", "t", "e">>
s_local == <<"l", "o", "c", "a", "l">>
s_phi5 == <<"p", "h", "i", "5">>
s_phi7 == <<"p", "h", "i", "7">>
s_tlg == <<"t", "l", "g">>
s_PHI5 == <<"P", "H", "I", "5">>
s_PHI7 == <<"P", "H", "I", "7">>
s_TLG_E == <<"T", "L", "G", "_", "E">>
s_originals == <<"o", "r", "i", "g", "i", "n", "a", "l", "s">>
s_README == <<"R", "E", "A", "D", "M", "E", ".", "m", "d">>
s_dotgit == <<".", "g", "i", "t">>
s_github == <<"h", "t", "t", "p", "s", ":", "/", "/", "g", "i", "t", "h", "u", "b", ".", "c", "o", "m", "/", "c", "l", "t", "k", "/">>

\* The value of an omitted local_path argument (Python None).
None == <<"None">>

\* os.sep and os.pathsep on POSIX.
sep == "/"
pathsep == ":"

(***************************************************************************)
(* Pure string functions.                                                  *)
(***************************************************************************)
Upper == <<"A", "B", "C", "D", "E", "F", "G", "H", "I", "J", "K", "L", "M",
           "N", "O", "P", "Q", "R", "S", "T", "U", "V", "W", "X", "Y", "Z">>
Lower == <<"a", "b", "c", "d", "e", "f", "g", "h", "i", "j", "k", "l", "m",
           "n", "o", "p", "q", "r", "s", "t", "u", "v", "w", "x", "y", "z">>

\* str.lower on one character.
lower_char(c) ==
    IF \E i \in 1..Len(Upper) : Upper[i] = c
    THEN Lower[CHOOSE i \in 1..Len(Upper) : Upper[i] = c]
    ELSE c

\* str.lower
lower(s) == [i \in 1..Len(s) |-> lower_char(s[i])]

\* str.rstrip(chars) for a one-character argument.
RECURSIVE rstrip(_, _)
rstrip(s, c) ==
    IF s # <<>> /\ s[Len(s)] = c THEN rstrip(SubSeq(s, 1, Len(s) - 1), c) ELSE s

\* Index of the last occurrence of c in s, 0 when there is none (str.rfind + 1).
rfind(s, c) ==
    IF \E i \in 1..Len(s) : s[i] = c
    THEN CHOOSE i \in 1..Len(s) : s[i] = c /\ \A j \in (i+1)..Len(s) : s[j] # c
    ELSE 0

\* os.path.split(p)[1]: everything after the last separator.
split_tail(p) == SubSeq(p, rfind(p, sep) + 1, Len(p))

\* os.path.join(a, b) of posixpath.
join(a, b) ==
    IF b # <<>> /\ b[1] = sep THEN b
    ELSE IF a = <<>> \/ a[Len(a)] = sep THEN a \o b
    ELSE a \o <<sep>> \o b

\* urllib.parse.urljoin(base, url) for a relative reference that is a single
\* path segment: the base up to and including its last "/" followed by url.
urljoin(base, url) ==
    IF url = <<>> THEN base ELSE SubSeq(base, 1, rfind(base, sep)) \o url

(***************************************************************************)
(* Path resolution: a path string names the node reached by its non-empty  *)
(* components, starting from the root directory.                           *)
(***************************************************************************)
RECURSIVE components(_)
components(p) ==
    IF p = <<>> THEN <<>>
    ELSE LET k == IF \E i \in 1..Len(p) : p[i] = sep
                  THEN CHOOSE i \in 1..Len(p) : p[i] = sep /\ \A j \in 1..(i-1) : p[j] # sep
                  ELSE Len(p) + 1
             head == SubSeq(p, 1, k - 1)
             rest == IF k >= Len(p) THEN <<>> ELSE SubSeq(p, k + 1, Len(p))
         IN  IF head = <<>> THEN components(rest) ELSE <<head>> \o components(rest)

\* TRUE when the path string ends in a separator below the root, so that it
\* can only name a directory.
must_be_dir(p) == p # <<>> /\ p[Len(p)] = sep /\ components(p) # <<>>

IsPrefix(a, b) == Len(a) <= Len(b) /\ SubSeq(b, 1, Len(a)) = a

\* A node is a directory ("dir", or "dir000" when its mode denies listing it
\* to the caller) or a regular file, whose value stands for its content.
DirKinds == {"dir", "dir000"}

exists(f, n) == n = <<>> \/ n \in DOMAIN f
node_isdir(f, n) == n = <<>> \/ (n \in DOMAIN f /\ f[n] \in DirKinds)
node_isfile(f, n) == n # <<>> /\ n \in DOMAIN f /\ f[n] \notin DirKinds

\* Outcome of looking a path string up: "dir", "file", or the errno name.
stat(f, p) ==
    LET n == components(p) IN
    IF \E k \in 1..(Len(n) - 1) : node_isfile(f, SubSeq(n, 1, k)) THEN "ENOTDIR"
    ELSE IF ~exists(f, n) THEN "ENOENT"
    ELSE IF node_isdir(f, n) THEN "dir"
    ELSE IF must_be_dir(p) THEN "ENOTDIR"
    ELSE "file"

\* os.path.isdir, os.path.isfile
isdir(f, p) == stat(f, p) = "dir"
isfile(f, p) == stat(f, p) = "file"

\* Restriction and extension of a filesystem.
Without(f, gone) == [n \in (DOMAIN f) \ gone |-> f[n]]
With(f, add) == [n \in (DOMAIN f) \cup (DOMAIN add) |-> IF n \in DOMAIN add THEN add[n] ELSE f[n]]

\* os.makedirs(p) where no component of p is a regular file.
makedirs(f, p) ==
    LET n == components(p) IN
    With(f, [m \in {SubSeq(n, 1, k) : k \in 1..Len(n)} |-> "dir"])

\* Variant of rmtree: the tree is renamed to a backup beside it.
rmtree_to_backup(f, p) ==
    LET n == components(p)
        bak == SubSeq(n, 1, Len(n) - 1) \o <<n[Len(n)] \o <<"~">>>>
        gone == {m \in DOMAIN f : IsPrefix(n, m)}
    IN  With(Without(f, gone),
             [m \in {bak \o SubSeq(x, Len(n) + 1, Len(x)) : x \in gone} |->
                 f[n \o SubSeq(m, Len(n) + 1, Len(m))]])

\* Variant of rmtree: the call is skipped and the tree stays.
rmtree_skipped(f, p) == f

\* shutil.rmtree(p)
rmtree(f, p) ==
    LET n == components(p) IN Without(f, {m \in DOMAIN f : IsPrefix(n, m)})

(***************************************************************************)
(* shutil.copytree, shutil.copy and CorpusImporter._copy_dir_recursive.    *)
(* Each returns [fs, exc]: the filesystem afterwards and the errno name of *)
(* the OSError raised, "none" when it returns normally.                    *)
(***************************************************************************)
\* The nodes strictly below node n, relative to n.
below(f, n) == {SubSeq(m, Len(n) + 1, Len(m)) : m \in {x \in DOMAIN f : IsPrefix(n, x) /\ x # n}}

\* shutil.copytree(src, dst): list src, create dst (which must not exist),
\* then copy every entry of the listing.
copytree(f, src, dst) ==
    LET s == stat(f, src)
        d == stat(f, dst)
        sn == components(src)
        dn == components(dst)
    IN  IF s \in {"ENOENT", "ENOTDIR"} THEN [fs |-> f, exc |-> s]
        ELSE IF s = "file" THEN [fs |-> f, exc |-> "ENOTDIR"]
        ELSE IF sn # <<>> /\ f[sn] = "dir000" THEN [fs |-> f, exc |-> "EACCES"]
        ELSE IF d \in {"dir", "file"} THEN [fs |-> f, exc |-> "EEXIST"]
        ELSE IF d = "ENOTDIR" THEN [fs |-> f, exc |-> "ENOTDIR"]
        ELSE [fs |-> With(makedirs(f, dst), [m \in {dn \o r : r \in below(f, sn)} |->
                                               f[sn \o SubSeq(m, Len(dn) + 1, Len(m))]]),
              exc |-> "none"]

\* shutil.copy(src, dst): copy one regular file to dst, or into dst when dst
\* is a directory.
copy(f, src, dst) ==
    LET s == stat(f, src)
        to == IF isdir(f, dst) THEN join(dst, split_tail(src)) ELSE dst
        tn == components(to)
        parent == SubSeq(tn, 1, Len(tn) - 1)
    IN  IF s \in {"ENOENT", "ENOTDIR"} THEN [fs |-> f, exc |-> s]
        ELSE IF s = "dir" THEN [fs |-> f, exc |-> "EISDIR"]
        ELSE IF tn = <<>> \/ must_be_dir(to) \/ node_isdir(f, tn) THEN [fs |-> f, exc |-> "EISDIR"]
        ELSE IF ~exists(f, parent) THEN [fs |-> f, exc |-> "ENOENT"]
        ELSE IF ~node_isdir(f, parent) THEN [fs |-> f, exc |-> "ENOTDIR"]
        ELSE [fs |-> With(f, [m \in {tn} |-> f[components(src)]]), exc |-> "none"]

\* CorpusImporter._copy_dir_recursive(src, dst): [fs, exc, log].
Files_copied == "Files copied from %s to %s"

\* Variant of _copy_dir_recursive: no single-file fallback, every error of
\* copytree is raised again.
copy_dir_recursive_no_fallback(f, src, dst) ==
    LET t == copytree(f, src, dst) IN
    IF t.exc = "none" THEN [fs |-> t.fs, exc |-> "none", log |-> <<Files_copied>>]
    ELSE [fs |-> t.fs, exc |-> t.exc, log |-> <<>>]

_copy_dir_recursive(f, src, dst) ==
    LET t == copytree(f, src, dst) IN
    IF t.exc = "none" THEN [fs |-> t.fs, exc |-> "none", log |-> <<Files_copied>>]
    ELSE IF t.exc = "ENOTDIR"
         THEN LET c == copy(t.fs, src, dst) IN
              [fs |-> c.fs, exc |-> c.exc,
               log |-> IF c.exc = "none" THEN <<Files_copied>> ELSE <<>>]
         ELSE [fs |-> t.fs, exc |-> t.exc, log |-> <<>>]

(***************************************************************************)
(* The corpus registry.  The per-language corpora modules are data modules *)
(* outside the importer; the registry here lists, per supported language,  *)
(* descriptors of every shape the importer distinguishes: remote corpora,  *)
(* the legacy local corpora phi5, phi7 and tlg, and a local corpus that is *)
(* none of the three.                                                      *)
(***************************************************************************)
s_model == <<"m", "o", "d", "e", "l">>
s_text == <<"t", "e", "x", "t">>
s_greek_models_cltk == <<"g", "r", "e", "e", "k", "_", "m", "o", "d", "e", "l", "s", "_", "c", "l", "t", "k">>
s_latin_models_cltk == <<"l", "a", "t", "i", "n", "_", "m", "o", "d", "e", "l", "s", "_", "c", "l", "t", "k">>
s_latin_local == <<"l", "a", "t", "i", "n", "_", "l", "o", "c", "a", "l">>
s_corpus == <<"c", "o", "r", "p", "u", "s">>

AVAILABLE_LANGUAGES ==
    <<s_chinese, s_coptic, s_greek, s_latin, s_multilingual, s_pali, s_tibetan, s_sanskrit>>

Descriptor(n, l, t) == [name |-> n, location |-> l, type |-> t]

GREEK_CORPORA ==
    << Descriptor(s_greek_models_cltk, s_remote, s_model),
       Descriptor(s_tlg, s_local, s_text),
       Descriptor(s_phi7, s_local, s_text) >>

LATIN_CORPORA ==
    << Descriptor(s_latin_models_cltk, s_remote, s_model),
       Descriptor(s_phi5, s_local, s_text),
       Descriptor(s_phi7, s_local, s_text),
       Descriptor(s_latin_local, s_local, s_text) >>

\* One remote text corpus named <language>_corpus for the other languages.
OTHER_CORPORA(lang) == << Descriptor(lang \o <<"_">> \o s_corpus, s_remote, s_text) >>

LANGUAGE_CORPORA ==
    [l \in {AVAILABLE_LANGUAGES[i] : i \in 1..Len(AVAILABLE_LANGUAGES)} |->
        IF l = s_greek THEN GREEK_CORPORA
        ELSE IF l = s_latin THEN LATIN_CORPORA
        ELSE OTHER_CORPORA(l)]

\* The data root ~/cltk_data, with the home directory at /home.
s_cltk_data_root == <<"/", "h", "o", "m", "e", "/", "c", "l", "t", "k", "_", "d", "a", "t", "a">>

\* cltk.utils.file_operations.make_cltk_path(*fp_list): the components joined
\* under the data root.
RECURSIVE join_all(_, _)
join_all(a, parts) == IF parts = <<>> THEN a ELSE join_all(join(a, Head(parts)), Tail(parts))

make_cltk_path(parts) == join_all(s_cltk_data_root, parts)

(***************************************************************************)
(* GitPython.  The remote side is the environment: a clone or a pull       *)
(* succeeds or fails as the environment decides (co, po), and fails with   *)
(* git.exc.GitCommandError.  A repository of the cltk organisation carries *)
(* README.md at its root, which is what the importer tests for.            *)
(***************************************************************************)
\* Bound: the number of upstream revisions a corpus goes through.
MaxRev == 2

Revs == <<"rev1", "rev2", "rev3", "rev4">>

CloneOutcomes == {"ok", "fail", "partial"}
PullOutcomes == {"ok", "new", "fail"}

s_dotgit_suffix == <<".", "g", "i", "t">>

\* All descriptors of the registry.
AllDescriptors ==
    UNION {{LANGUAGE_CORPORA[l][i] : i \in 1..Len(LANGUAGE_CORPORA[l])} : l \in DOMAIN LANGUAGE_CORPORA}

\* The repositories that exist under https://github.com/cltk/: one per
\* remote descriptor, named <corpus name>.git.
RemoteRepositories ==
    {s_github \o d.name \o s_dotgit_suffix : d \in {x \in AllDescriptors : x.location = s_remote}}

\* Repo.clone_from(git_uri, target_dir, depth=1): [fs, exc].  git refuses a
\* target that exists and is not an empty directory; a failed clone leaves
\* the target as it was, or a partial tree without the checkout.
clone_from(f, git_uri, target_dir, co) ==
    LET tn == components(target_dir)
        nonempty == exists(f, tn) /\ (node_isfile(f, tn) \/ below(f, tn) # {})
    IN  IF nonempty \/ git_uri \notin RemoteRepositories \/ co = "fail"
        THEN [fs |-> f, exc |-> "GitCommandError"]
        ELSE IF co = "partial"
        THEN [fs |-> With(f, [m \in {tn, tn \o <<s_dotgit>>} |-> "dir"]),
              exc |-> "GitCommandError"]
        ELSE [fs |-> With(f, [m \in {tn, tn \o <<s_dotgit>>, tn \o <<s_README>>} |->
                                 IF m = tn \o <<s_README>> THEN Revs[1] ELSE "dir"]),
              exc |-> "none"]

\* The revision after r upstream, r itself when r is the newest one.
NextRev(r) ==
    LET k == CHOOSE i \in 1..Len(Revs) : Revs[i] = r IN
    IF k < MaxRev THEN Revs[k + 1] ELSE r

\* Repo(target_dir), repo.remotes.origin.pull(): [fs, exc, pulled].  Repo()
\* raises InvalidGitRepositoryError when target_dir holds no .git directory.
pull(f, target_dir, po) ==
    LET tn == components(target_dir)
        readme == tn \o <<s_README>>
    IN  IF ~node_isdir(f, tn \o <<s_dotgit>>)
        THEN [fs |-> f, exc |-> "InvalidGitRepositoryError", pulled |-> FALSE]
        ELSE IF po = "fail" THEN [fs |-> f, exc |-> "GitCommandError", pulled |-> TRUE]
        ELSE IF po = "new" /\ node_isfile(f, readme)
        THEN [fs |-> With(f, [m \in {readme} |-> NextRev(f[readme])]), exc |-> "none", pulled |-> TRUE]
        ELSE [fs |-> f, exc |-> "none", pulled |-> TRUE]

\* Variant of catches: a bare "except Exception" that catches every class.
catches_any(cls, exc) == exc # "none"

\* "except cls as e": the classes an except clause catches.  None of the
\* exception classes raised here derives from another one of them.
catches(cls, exc) == exc # "none" /\ exc = cls

(***************************************************************************)
(* CorpusImporter                                                          *)
(***************************************************************************)
\* The value of `importer` before any CorpusImporter has been constructed.
NoImporter == None

\* _setup_language_variables: "none" or the exception raised.
_setup_language_variables(language) ==
    IF \A i \in 1..Len(AVAILABLE_LANGUAGES) : AVAILABLE_LANGUAGES[i] # language
    THEN "CorpusImportError"
    ELSE "none"

\* Variant of __init__: the language is validated as given, not lowercased.
init_without_lower(language) ==
    [language |-> language, exc |-> _setup_language_variables(language)]

\* __init__(language): the stored language and the exception raised.
__init__(language) ==
    LET l == lower(language) IN
    [language |-> l, exc |-> _setup_language_variables(l)]

\* Variant of _get_corpus_properties: the name is looked up in the lists of
\* all languages instead of the importer's own.
get_corpus_properties_any_language(language, corpus_name) ==
    IF \E d \in AllDescriptors : d.name = corpus_name
    THEN [exc |-> "none", properties |-> CHOOSE d \in AllDescriptors : d.name = corpus_name]
    ELSE [exc |-> "CorpusImportError", properties |-> Descriptor(<<>>, <<>>, <<>>)]

\* Variant of scan_corpora: a later descriptor with the name replaces an
\* earlier one.
RECURSIVE scan_corpora_last(_, _)
scan_corpora_last(corpora, corpus_name) ==
    IF corpora = <<>>
    THEN [exc |-> "CorpusImportError", properties |-> Descriptor(<<>>, <<>>, <<>>)]
    ELSE IF scan_corpora_last(Tail(corpora), corpus_name).exc = "none"
    THEN scan_corpora_last(Tail(corpora), corpus_name)
    ELSE IF Head(corpora).name = corpus_name
    THEN [exc |-> "none", properties |-> Head(corpora)]
    ELSE [exc |-> "CorpusImportError", properties |-> Descriptor(<<>>, <<>>, <<>>)]

\* "for corpus_properties in corpora: if corpus_properties['name'] ==
\* corpus_name: return corpus_properties", then the raise after the loop.
RECURSIVE scan_corpora(_, _)
scan_corpora(corpora, corpus_name) ==
    IF corpora = <<>>
    THEN [exc |-> "CorpusImportError", properties |-> Descriptor(<<>>, <<>>, <<>>)]
    ELSE IF Head(corpora).name = corpus_name
    THEN [exc |-> "none", properties |-> Head(corpora)]
    ELSE scan_corpora(Tail(corpora), corpus_name)

\* _get_corpus_properties(corpus_name): the first descriptor of the language's
\* list with that name, or CorpusImportError.
_get_corpus_properties(language, corpus_name) ==
    scan_corpora(LANGUAGE_CORPORA[language], corpus_name)

Log(msg, arg) == [msg |-> msg, arg |-> arg]

\* One filesystem or git operation of a call: its name, its arguments and
\* the exception it raised ("none" when it succeeded).
Op(op, a, b, exc) == [op |-> op, a |-> a, b |-> b, exc |-> exc]

\* Variant of sentinel_present: a clone in progress counts as the sentinel.
sentinel_present_or_cloning(f, target_file) ==
    \/ isfile(f, target_file)
    \/ \E o \in DOMAIN inflight : inflight[o].pc = "cloning" /\ ~inflight[o].crashed

\* Variant of sentinel_present: the test is inverted.
sentinel_present_inverted(f, target_file) == ~isfile(f, target_file)

\* Variant of sentinel_present: the corpus directory is tested, not the file.
sentinel_present_by_dir(f, target_file) ==
    isdir(f, SubSeq(target_file, 1, rfind(target_file, sep) - 1))

\* "os.path.isfile(target_file)": the test that decides between clone and pull.
sentinel_present(f, target_file) == isfile(f, target_file)

\* Variant of remote_clone: a failed clone is tried a second time.
remote_clone_retry(f, corpus_name, git_uri, type_dir, target_dir, co) ==
    LET mk == ~isdir(f, type_dir)
        f1 == IF mk THEN makedirs(f, type_dir) ELSE f
        c1 == clone_from(f1, git_uri, target_dir, co)
        c == IF c1.exc = "none" THEN c1 ELSE clone_from(c1.fs, git_uri, target_dir, "ok")
    IN  [fs |-> c.fs,
         exc |-> c.exc,
         ops |-> (IF mk THEN <<Op("makedirs", type_dir, <<>>, "none")>> ELSE <<>>)
                 \o <<Op("clone", git_uri, target_dir, c1.exc)>>
                 \o (IF c1.exc = "none" THEN <<>> ELSE <<Op("clone", git_uri, target_dir, c.exc)>>),
         log |-> <<Log("Cloning '{}' from '{}'", corpus_name)>>]

\* The clone branch of import_corpus: [fs, exc, ops, log].
remote_clone(f, corpus_name, git_uri, type_dir, target_dir, co) ==
    LET mk == ~isdir(f, type_dir)
        f1 == IF mk THEN makedirs(f, type_dir) ELSE f
        c == clone_from(f1, git_uri, target_dir, co)
        caught == catches("CorpusImportError", c.exc)
    IN  [fs |-> c.fs,
         exc |-> IF caught THEN "none" ELSE c.exc,
         ops |-> (IF mk THEN <<Op("makedirs", type_dir, <<>>, "none")>> ELSE <<>>)
                 \o <<Op("clone", git_uri, target_dir, c.exc)>>,
         log |-> <<Log("Cloning '{}' from '{}'", corpus_name)>>
                 \o (IF caught THEN <<Log("Git clone of '{}' failed: '{}'", git_uri)>> ELSE <<>>)]

\* Variant of remote_pull: a failed pull removes the target directory.
remote_pull_cleanup(f, corpus_name, git_uri, target_dir, po) ==
    LET r == pull(f, target_dir, po)
        caught == catches("CorpusImportError", r.exc)
    IN  [fs |-> IF r.exc = "none" THEN r.fs ELSE rmtree(r.fs, target_dir),
         exc |-> IF caught THEN "none" ELSE r.exc,
         ops |-> IF r.pulled THEN <<Op("pull", target_dir, <<>>, r.exc)>> ELSE <<>>,
         log |-> (IF r.pulled THEN <<Log("Pulling latest '{}' from '{}'.", corpus_name)>> ELSE <<>>)
                 \o (IF caught THEN <<Log("Git pull of '{}' failed: '{}'", git_uri)>> ELSE <<>>)]

\* The pull branch of import_corpus: [fs, exc, ops, log].
remote_pull(f, corpus_name, git_uri, target_dir, po) ==
    LET r == pull(f, target_dir, po)
        caught == catches("CorpusImportError", r.exc)
    IN  [fs |-> r.fs,
         exc |-> IF caught THEN "none" ELSE r.exc,
         ops |-> IF r.pulled THEN <<Op("pull", target_dir, <<>>, r.exc)>> ELSE <<>>,
         log |-> (IF r.pulled THEN <<Log("Pulling latest '{}' from '{}'.", corpus_name)>> ELSE <<>>)
                 \o (IF caught THEN <<Log("Git pull of '{}' failed: '{}'", git_uri)>> ELSE <<>>)]

\* The remote branch of import_corpus: [fs, exc, ops, log].
import_remote(f, language, corpus_name, corpus_type, co, po) ==
    LET git_uri == urljoin(s_github, corpus_name \o s_dotgit_suffix)
        type_dir == make_cltk_path(<<language, corpus_type>>)
        target_dir == join(type_dir, corpus_name)
        target_file == join(join(type_dir, corpus_name), s_README)
    IN  IF ~sentinel_present(f, target_file)
        THEN remote_clone(f, corpus_name, git_uri, type_dir, target_dir, co)
        ELSE remote_pull(f, corpus_name, git_uri, target_dir, po)

\* The directory name a legacy corpus is expected to come from.
expected_dir(corpus_name) ==
    IF corpus_name = s_phi5 THEN s_PHI5
    ELSE IF corpus_name = s_phi7 THEN s_PHI7
    ELSE s_TLG_E

\* The local branch runs statement by statement on a context c: the
\* filesystem, the exception raised so far ("none" while running), the
\* operations and log lines so far, and the local_path variable.
\* local_path = local_path.rstrip(os.pathsep)
normalize_local_path(c) == [c EXCEPT !.local_path = rstrip(c.local_path, pathsep)]

\* Variant of check_dir_name: a mismatch is an error.
check_dir_name_strict(c, corpus_name) ==
    IF split_tail(c.local_path) # expected_dir(corpus_name)
    THEN [c EXCEPT !.exc = "CorpusImportError",
                   !.log = @ \o <<Log("Directory must be named", expected_dir(corpus_name))>>]
    ELSE c

\* The "check for right corpus dir" steps: a mismatch is logged, nothing is
\* raised.
check_dir_name(c, corpus_name) ==
    IF split_tail(c.local_path) # expected_dir(corpus_name)
    THEN [c EXCEPT !.log = @ \o <<Log("Directory must be named", expected_dir(corpus_name))>>]
    ELSE c

\* "if not os.path.isdir(originals_dir): os.makedirs(originals_dir)"
ensure_originals_dir(c, originals_dir) ==
    IF c.exc # "none" \/ isdir(c.fs, originals_dir) THEN c
    ELSE [c EXCEPT !.fs = makedirs(c.fs, originals_dir),
                   !.ops = @ \o <<Op("makedirs", originals_dir, <<>>, "none")>>,
                   !.log = @ \o <<Log("Wrote directory at '{}'.", originals_dir)>>]

\* "if os.path.isdir(tlg_originals_dir): shutil.rmtree(tlg_originals_dir)"
remove_old_originals(c, tlg_originals_dir) ==
    IF c.exc # "none" \/ ~isdir(c.fs, tlg_originals_dir) THEN c
    ELSE [c EXCEPT !.fs = rmtree(c.fs, tlg_originals_dir),
                   !.ops = @ \o <<Op("rmtree", tlg_originals_dir, <<>>, "none")>>,
                   !.log = @ \o <<Log("Removed directory at '{}'.", tlg_originals_dir)>>]

\* The outcome r of _copy_dir_recursive recorded in the context.
copied(c, r, tlg_originals_dir) ==
    [c EXCEPT !.fs = r.fs,
              !.exc = r.exc,
              !.ops = @ \o <<Op("copy", c.local_path, tlg_originals_dir, r.exc)>>,
              !.log = @ \o [i \in 1..Len(r.log) |-> Log(r.log[i], c.local_path)]]

\* "if not os.path.isdir(tlg_originals_dir): self._copy_dir_recursive(...)"
copy_to_originals(c, tlg_originals_dir) ==
    IF c.exc # "none" \/ isdir(c.fs, tlg_originals_dir) THEN c
    ELSE copied(c, _copy_dir_recursive(c.fs, c.local_path, tlg_originals_dir), tlg_originals_dir)

\* Variant of import_local: the copy is made for every local corpus name.
import_local_any_name(f, corpus_name, local_path) ==
    LET c0 == [fs |-> f, exc |-> "none", ops |-> <<>>,
               log |-> <<Log("Importing from local path: '{}'", local_path)>>,
               local_path |-> local_path]
    IN  IF local_path = None THEN [c0 EXCEPT !.exc = "AttributeError"]
        ELSE copy_to_originals(
                 remove_old_originals(
                     ensure_originals_dir(
                         check_dir_name(normalize_local_path(c0), corpus_name),
                         make_cltk_path(<<s_originals>>)),
                     make_cltk_path(<<s_originals, corpus_name>>)),
                 make_cltk_path(<<s_originals, corpus_name>>))

\* The local branch of import_corpus: [fs, exc, ops, log, local_path].
import_local(f, corpus_name, local_path) ==
    LET c0 == [fs |-> f, exc |-> "none", ops |-> <<>>,
               log |-> <<Log("Importing from local path: '{}'", local_path)>>,
               local_path |-> local_path]
    IN  IF corpus_name \notin {s_phi5, s_phi7, s_tlg} THEN c0
        ELSE IF local_path = None THEN [c0 EXCEPT !.exc = "AttributeError"]
        ELSE copy_to_originals(
                 remove_old_originals(
                     ensure_originals_dir(
                         check_dir_name(normalize_local_path(c0), corpus_name),
                         make_cltk_path(<<s_originals>>)),
                     make_cltk_path(<<s_originals, corpus_name>>)),
                 make_cltk_path(<<s_originals, corpus_name>>))

\* An outcome [fs, exc, ops, log] as the record of a call.
call_record(r, corpus_name, language, pre) ==
    [call |-> "import", arg |-> corpus_name, language |-> language, exc |-> r.exc,
     ops |-> r.ops, log |-> r.log, pre |-> pre]

\* import_corpus(corpus_name, local_path=None): [fs, exc, ops, log].
import_corpus(f, language, corpus_name, local_path, co, po) ==
    LET g == _get_corpus_properties(language, corpus_name)
        location == g.properties.location
        corpus_type == g.properties.type
    IN  IF g.exc # "none"
        THEN [fs |-> f, exc |-> g.exc, ops |-> <<>>,
              log |-> <<Log("Corpus '%s' not available for the '%s' language.", corpus_name)>>]
        ELSE IF location = s_remote
        THEN import_remote(f, language, corpus_name, corpus_type, co, po)
        ELSE IF location = s_local
        THEN import_local(f, corpus_name, local_path)
        ELSE [fs |-> f, exc |-> "none", ops |-> <<>>, log |-> <<>>]

(***************************************************************************)
(* The state machine: callers construct importers and import corpora, one  *)
(* call at a time, against one shared filesystem.                          *)
(***************************************************************************)
\* Bound: the number of calls in a behaviour.
MaxCalls == 4

s_Greek == <<"G", "r", "e", "e", "k">>
s_klingon == <<"k", "l", "i", "n", "g", "o", "n">>
s_nope == <<"n", "o", "p", "e">>
p_PHI5 == <<"/", "d", "a", "t", "a", "/", "P", "H", "I", "5">>
p_PHI5_slash == <<"/", "d", "a", "t", "a", "/", "P", "H", "I", "5", "/">>
p_PHI5_colon == <<"/", "d", "a", "t", "a", "/", "P", "H", "I", "5", ":">>
p_old == <<"/", "d", "a", "t", "a", "/", "o", "l", "d">>
p_file == <<"/", "d", "a", "t", "a", "/", "f">>
p_missing == <<"/", "d", "a", "t", "a", "/", "n", "o", "p", "e">>
p_home == <<"/", "h", "o", "m", "e">>
p_locked == <<"/", "d", "a", "t", "a", "/", "x">>
p_inside == <<"/", "h", "o", "m", "e", "/", "c", "l", "t", "k", "_", "d", "a", "t", "a", "/",
              "o", "r", "i", "g", "i", "n", "a", "l", "s", "/", "p", "h", "i", "5">>

LanguageInputs == {s_Greek, s_latin, s_klingon}
CorpusNames == {s_greek_models_cltk, s_latin_models_cltk, s_phi5, s_phi7, s_tlg, s_latin_local, s_nope}
LocalPaths ==
    {None, p_PHI5, p_PHI5_slash, p_PHI5_colon, p_old, p_file, p_missing, p_locked, p_inside}

EmptyFs == [n \in {} |-> "dir"]

\* The caller's disk before the first call: a home directory without
\* cltk_data, the source trees /data/PHI5 (two files) and /data/old (another
\* file), the regular file /data/f and the directory /data/x, which the
\* caller may not list.
InitFs ==
    LET dirs == makedirs(makedirs(makedirs(EmptyFs, p_home), p_PHI5), p_old) IN
    With(dirs, [n \in {components(p_PHI5) \o <<<<"a">>>>,
                       components(p_PHI5) \o <<<<"c">>>>,
                       components(p_old) \o <<<<"b">>>>,
                       components(p_file),
                       components(p_locked)} |->
                  IF n = components(p_file) THEN "F1"
                  ELSE IF n = components(p_locked) THEN "dir000"
                  ELSE IF n = components(p_PHI5) \o <<<<"a">>>> THEN "A1"
                  ELSE IF n = components(p_PHI5) \o <<<<"c">>>> THEN "C1"
                  ELSE "B1"])

NoCall ==
    [call |-> "none", arg |-> <<>>, language |-> <<>>, exc |-> "none",
     ops |-> <<>>, log |-> <<>>, pre |-> EmptyFs]

\* No lookup made, and no invocation in progress in any process.
NoLookup == [corpora |-> <<>>, corpus_name |-> <<>>, done |-> FALSE,
             exc |-> "none", properties |-> Descriptor(<<>>, <<>>, <<>>)]

\* The two processes that call import_corpus concurrently.
Procs == {1, 2}

\* A process without an invocation: pc is the statement to execute next,
\* crashed tells that the process died at pc, saw_file is what line 150 read
\* on the disk, listing and todo are
\* the entries copytree listed and has yet to copy, deleted and before tell
\* whether line 201 removed a directory and what the disk held before.
Idle ==
    [pc |-> "idle", crashed |-> FALSE,
     language |-> <<>>, corpus_name |-> <<>>, corpus_type |-> <<>>,
     local_path |-> <<>>, exc |-> "none", saw_file |-> FALSE, listing |-> {},
     todo |-> {}, deleted |-> FALSE, before |-> EmptyFs]

Init ==
    /\ fs = InitFs
    /\ importer = NoImporter
    /\ last = NoCall
    /\ prev = NoCall
    /\ calls = 0
    /\ lookup = NoLookup
    /\ inflight = [p \in Procs |-> Idle]
    /\ races = {}

\* CorpusImporter(language)
New(language) ==
    LET r == __init__(language) IN
    /\ calls < MaxCalls
    /\ calls' = calls + 1
    /\ importer' = IF r.exc = "none" THEN r.language ELSE importer
    /\ last' = [call |-> "new", arg |-> language, language |-> r.language, exc |-> r.exc,
                ops |-> <<>>, log |-> <<>>, pre |-> fs]
    /\ UNCHANGED <<fs, prev, lookup, inflight, races>>

\* importer.import_corpus(corpus_name, local_path), with the environment's
\* answers to a clone (co) and to a pull (po).
ImportCorpus(corpus_name, local_path, co, po) ==
    /\ calls < MaxCalls
    /\ importer # NoImporter
    /\ \E r \in {import_corpus(fs, importer, corpus_name, local_path, co, po)} :
          /\ fs' = r.fs
          /\ last' = call_record(r, corpus_name, importer, fs)
    /\ prev' = IF last.call = "import" THEN last ELSE prev
    /\ calls' = calls + 1
    /\ UNCHANGED <<importer, lookup, inflight, races>>

\* The arguments and environment answers that make a difference to a call:
\* local_path is read for local descriptors only and looked up on disk for
\* phi5, phi7 and tlg only, co and po are read for remote descriptors, and a
\* call issues a clone or a pull, never both.
NamesOf(location) == {d.name : d \in {x \in AllDescriptors : x.location = location}}
PathsFor(corpus_name) ==
    IF corpus_name \in {s_phi5, s_phi7, s_tlg} THEN LocalPaths
    ELSE IF corpus_name \in NamesOf(s_local) THEN {None, p_PHI5, p_missing}
    ELSE {None}
AnswersFor(corpus_name) ==
    IF corpus_name \in NamesOf(s_remote)
    THEN {<<co, "ok">> : co \in CloneOutcomes} \cup {<<"ok", po>> : po \in PullOutcomes}
    ELSE {<<"ok", "ok">>}

Next ==
    \/ \E language \in LanguageInputs : New(language)
    \/ \E corpus_name \in CorpusNames :
         \E local_path \in PathsFor(corpus_name), a \in AnswersFor(corpus_name) :
            ImportCorpus(corpus_name, local_path, a[1], a[2])

Spec == Init /\ [][Next]_vars

TypeOK ==
    /\ importer \in {NoImporter, s_greek, s_latin}
    /\ \A n \in DOMAIN fs : n # <<>> /\ node_isdir(fs, SubSeq(n, 1, Len(n) - 1))

(***************************************************************************)
(* Properties.                                                             *)
(***************************************************************************)
s_home == <<"h", "o", "m", "e">>
s_cltk_data == <<"c", "l", "t", "k", "_", "d", "a", "t", "a">>

DescriptorsOf(language) ==
    {LANGUAGE_CORPORA[language][i] : i \in 1..Len(LANGUAGE_CORPORA[language])}

IsImport(r) == r.call = "import"
Known(r) == \E d \in DescriptorsOf(r.language) : d.name = r.arg
DescriptorOf(r) == CHOOSE d \in DescriptorsOf(r.language) : d.name = r.arg
RemoteImport(r) == IsImport(r) /\ Known(r) /\ DescriptorOf(r).location = s_remote
LocalImport(r) == IsImport(r) /\ Known(r) /\ DescriptorOf(r).location = s_local
LegacyImport(r) == LocalImport(r) /\ r.arg \in {s_phi5, s_phi7, s_tlg}

\* The nodes <data root>/{language}/{type}, .../{corpus_name} and its README.md.
TypeNode(r) == <<s_home, s_cltk_data, r.language, DescriptorOf(r).type>>
TargetNode(r) == TypeNode(r) \o <<r.arg>>
SentinelNode(r) == TargetNode(r) \o <<s_README>>
HasSentinel(f, r) == node_isfile(f, SentinelNode(r))

\* The node <data root>/originals/{corpus_name}.
OriginalsNode(r) == <<s_home, s_cltk_data, s_originals, r.arg>>

IsGitOp(o) == o.op \in {"clone", "pull"}
GitOps(r) == SelectSeq(r.ops, IsGitOp)
GitOpNames(r) == [i \in 1..Len(GitOps(r)) |-> GitOps(r)[i].op]
NoGitFailure(r) == \A i \in 1..Len(r.ops) : IsGitOp(r.ops[i]) => r.ops[i].exc = "none"
GitFailure(r) == \E i \in 1..Len(r.ops) : IsGitOp(r.ops[i]) /\ r.ops[i].exc # "none"
HasOp(r, name) == \E i \in 1..Len(r.ops) : r.ops[i].op = name
TheOp(r, name) == r.ops[CHOOSE i \in 1..Len(r.ops) : r.ops[i].op = name]
Logged(r, msg) == \E i \in 1..Len(r.log) : r.log[i].msg = msg

\* Two successive import_corpus calls for one remote corpus, the first one
\* starting without the sentinel, no clone or pull of either failing.
TwoRemoteImports ==
    /\ RemoteImport(prev) /\ RemoteImport(last)
    /\ prev.arg = last.arg /\ prev.language = last.language
    /\ ~HasSentinel(prev.pre, prev)
    /\ NoGitFailure(prev) /\ NoGitFailure(last)

\* C1: two successive imports of an absent remote corpus, the remote
\* operations succeeding, perform one clone and then one pull, and the
\* sentinel exists after the first and after the second call.
C1_Idempotent ==
    TwoRemoteImports =>
        /\ GitOpNames(prev) = <<"clone">>
        /\ GitOpNames(last) = <<"pull">>
        /\ HasSentinel(last.pre, last)
        /\ HasSentinel(fs, last)

C1_Witness ==
    /\ TwoRemoteImports
    /\ GitOpNames(prev) = <<"clone">> /\ GitOpNames(last) = <<"pull">>
    /\ HasSentinel(fs, last)

\* C2: when the clone or the pull of a remote import fails, import_corpus
\* logs the failure and returns normally.
C2_SyncFailureSwallowed ==
    (RemoteImport(last) /\ GitFailure(last)) =>
        /\ last.exc = "none"
        /\ \/ Logged(last, "Git clone of '{}' failed: '{}'")
           \/ Logged(last, "Git pull of '{}' failed: '{}'")

\* C3: import_corpus with a name that no descriptor of the importer's
\* language has fails with CorpusImportError, leaves the filesystem as it
\* was and starts no operation.
C3_UnknownCorpusFailsFirst ==
    (IsImport(last) /\ ~Known(last)) =>
        /\ last.exc = "CorpusImportError"
        /\ fs = last.pre
        /\ last.ops = <<>>

C3_Witness ==
    /\ IsImport(last) /\ ~Known(last)
    /\ last.exc = "CorpusImportError"
    /\ \E d \in AllDescriptors : d.name = last.arg

SupportedLanguages == {s_chinese, s_coptic, s_greek, s_latin, s_multilingual, s_pali, s_tibetan, s_sanskrit}

\* C4: construction succeeds exactly when the lowercased language is
\* supported, the importer then holds the lowercased language, and any other
\* language fails with CorpusImportError.
C4_LowercaseBeforeValidation ==
    last.call = "new" =>
        /\ last.exc = "none" <=> lower(last.arg) \in SupportedLanguages
        /\ last.exc = "none" => importer = lower(last.arg)
        /\ last.exc # "none" => last.exc = "CorpusImportError"
        /\ last.arg = s_Greek => importer = s_greek

C4_Witness ==
    /\ last.call = "new" /\ last.arg = s_Greek /\ last.arg # s_greek
    /\ last.exc = "none" /\ importer = s_greek

\* C5: a remote import issues at most one clone or pull, and when that
\* operation fails the sentinel is afterwards as it was before: absent after
\* a failed clone, present after a failed pull.
C5_FailedSyncKeepsState ==
    RemoteImport(last) =>
        /\ Len(GitOps(last)) <= 1
        /\ GitFailure(last) => (HasSentinel(fs, last) <=> HasSentinel(last.pre, last))
        /\ (GitFailure(last) /\ GitOpNames(last) = <<"clone">>) => ~HasSentinel(fs, last)
        /\ (GitFailure(last) /\ GitOpNames(last) = <<"pull">>) => HasSentinel(fs, last)

C5_Witness ==
    /\ RemoteImport(last) /\ GitFailure(last)
    /\ GitOpNames(last) = <<"clone">>
    /\ node_isdir(fs, TargetNode(last)) /\ ~HasSentinel(fs, last)

\* C6: when import_corpus for a remote corpus returns normally, README.md
\* exists at {language}/{type}/{corpus_name} under the data root.
C6_NormalReturnHasSentinel ==
    (RemoteImport(last) /\ last.exc = "none") => HasSentinel(fs, last)

C6_Witness ==
    /\ RemoteImport(last) /\ last.exc = "none"
    /\ ~HasSentinel(last.pre, last) /\ HasSentinel(fs, last)

\* The filesystem f2 holds at node n2 what f1 holds at node n1: the same
\* regular file, or a directory with the same tree below it.
SameContent(f1, n1, f2, n2) ==
    /\ exists(f1, n1) /\ exists(f2, n2)
    /\ f1[n1] = f2[n2]
    /\ below(f1, n1) = below(f2, n2)
    /\ \A r \in below(f1, n1) : f1[n1 \o r] = f2[n2 \o r]

\* A local import of a legacy corpus with a local_path.
LegacyImportFrom(r) == LegacyImport(r) /\ r.log[1].arg # None

\* C7: a successful local import of a legacy corpus whose destination was a
\* directory with files leaves at the destination exactly the content of the
\* source it copied from; nothing of the earlier destination survives.
C7_DestructiveOverwrite ==
    (/\ LegacyImportFrom(last) /\ last.exc = "none"
     /\ node_isdir(last.pre, OriginalsNode(last))
     /\ below(last.pre, OriginalsNode(last)) # {}) =>
        /\ HasOp(last, "rmtree") /\ HasOp(last, "copy")
        /\ SameContent(last.pre, components(TheOp(last, "copy").a), fs, OriginalsNode(last))

C7_Witness ==
    /\ LegacyImportFrom(last) /\ last.exc = "none"
    /\ node_isdir(last.pre, OriginalsNode(last))
    /\ below(last.pre, OriginalsNode(last)) # {}
    /\ below(fs, OriginalsNode(last)) # {}
    /\ below(fs, OriginalsNode(last)) \cap below(last.pre, OriginalsNode(last)) = {}

MismatchLogged(r) == Logged(r, "Directory must be named")

\* The node n is a directory of f that the caller may list.
ReadableDir(f, n) == n = <<>> \/ (n \in DOMAIN f /\ f[n] = "dir")

\* C8: a local import from a directory whose leaf name is not the expected
\* one logs the mismatch and then deletes and copies as for any directory:
\* the old destination directory is removed, the copy is made, and a
\* readable source directory outside the destination ends up at the
\* destination.
C8_MismatchDoesNotBlock ==
    (LegacyImportFrom(last) /\ MismatchLogged(last)) =>
        /\ HasOp(last, "copy")
        /\ HasOp(last, "rmtree") <=> node_isdir(last.pre, OriginalsNode(last))
        /\ (/\ ReadableDir(last.pre, components(TheOp(last, "copy").a))
            /\ ~IsPrefix(OriginalsNode(last), components(TheOp(last, "copy").a))
            /\ ~node_isfile(last.pre, OriginalsNode(last))) =>
                /\ last.exc = "none"
                /\ SameContent(last.pre, components(TheOp(last, "copy").a), fs, OriginalsNode(last))

C8_Witness ==
    /\ LegacyImportFrom(last) /\ MismatchLogged(last)
    /\ last.exc = "none"
    /\ HasOp(last, "rmtree") /\ HasOp(last, "copy")
    /\ node_isdir(fs, OriginalsNode(last))

\* C9: import_corpus for a local corpus, legacy or not, called without a
\* local_path returns normally and leaves the filesystem as it was.
C9_OmittedLocalPathIsNoop ==
    (LocalImport(last) /\ last.log[1].arg = None) =>
        /\ last.exc = "none"
        /\ fs = last.pre
        /\ last.ops = <<>>

\* C10: a remote import issues exactly one remote operation, chosen by the
\* sentinel file alone: without it (also when the target directory exists) a
\* clone of <base><corpus_name>.git into {language}/{type}/{corpus_name},
\* the type directory existing afterwards; with it a pull on that target.
C10_OneRemoteOpBySentinel ==
    RemoteImport(last) =>
        /\ Len(GitOps(last)) = 1
        /\ ~HasSentinel(last.pre, last) =>
              /\ GitOps(last)[1].op = "clone"
              /\ GitOps(last)[1].a = s_github \o last.arg \o s_dotgit_suffix
              /\ components(GitOps(last)[1].b) = TargetNode(last)
              /\ node_isdir(fs, TypeNode(last))
        /\ HasSentinel(last.pre, last) =>
              /\ GitOps(last)[1].op = "pull"
              /\ components(GitOps(last)[1].a) = TargetNode(last)
              /\ node_isdir(last.pre, TargetNode(last))

C10_Witness ==
    /\ RemoteImport(last)
    /\ node_isdir(last.pre, TargetNode(last)) /\ ~HasSentinel(last.pre, last)
    /\ GitOpNames(last) = <<"clone">>

\* C13: import_corpus with a local_path for a local corpus that is none of
\* phi5, phi7 and tlg returns normally and leaves the filesystem as it was:
\* no directory is created, nothing is deleted, nothing is copied.
C13_OtherLocalIsNoop ==
    (LocalImport(last) /\ ~LegacyImport(last) /\ last.log[1].arg # None) =>
        /\ last.exc = "none"
        /\ fs = last.pre
        /\ last.ops = <<>>

C13_Witness ==
    /\ LocalImport(last) /\ ~LegacyImport(last)
    /\ last.log[1].arg = p_PHI5
    /\ last.exc = "none"
    /\ ~exists(fs, <<s_home, s_cltk_data>>)

\* The source path and the outcome of the copy a local import attempted.
CopySource(r) == TheOp(r, "copy").a
CopyAttempted(r) == LegacyImportFrom(r) /\ HasOp(r, "copy")

GivenPath(r) == r.log[1].arg
Leaf(p) == components(p)[Len(components(p))]

\* C15: for a legacy corpus, a local_path that ends in directory separators
\* and whose last non-empty component is the expected name is treated like
\* the path without them: no mismatch is logged and the copy reads from the
\* trimmed path.
C15_TrailingSeparatorsTrimmed ==
    (/\ LegacyImportFrom(last)
     /\ must_be_dir(GivenPath(last))
     /\ Leaf(GivenPath(last)) = expected_dir(last.arg)) =>
        /\ ~MismatchLogged(last)
        /\ HasOp(last, "copy") => CopySource(last) = rstrip(GivenPath(last), sep)

\* The node a local import is asked to copy from.
SourceNode(r) == components(GivenPath(r))

\* C17: a local import of a legacy corpus from a readable directory outside
\* the destination succeeds and leaves the destination equal to the source,
\* whether the destination was missing, a directory or a regular file.
C17_ReimportAlwaysSucceeds ==
    (/\ LegacyImportFrom(last)
     /\ ReadableDir(last.pre, SourceNode(last))
     /\ stat(last.pre, rstrip(GivenPath(last), pathsep)) = "dir"
     /\ ~IsPrefix(OriginalsNode(last), SourceNode(last))) =>
        /\ last.exc = "none"
        /\ SameContent(last.pre, SourceNode(last), fs, OriginalsNode(last))

\* C18: a local import leaves the tree at local_path as it was, also when
\* local_path is the destination originals/{corpus_name} or lies inside it.
C18_SourceUntouched ==
    (LocalImport(last) /\ GivenPath(last) # None /\ exists(last.pre, SourceNode(last))) =>
        SameContent(last.pre, SourceNode(last), fs, SourceNode(last))

\* The sentinel nodes of the remote corpora of the registry, and those of
\* them that are regular files of f, each in a directory.
RemoteSentinelNodes ==
    {<<s_home, s_cltk_data, language, d.type, d.name, s_README>> :
        language \in SupportedLanguages,
        d \in {x \in AllDescriptors : x.location = s_remote}}
Present(f) ==
    {n \in RemoteSentinelNodes :
        node_isfile(f, n) /\ node_isdir(f, SubSeq(n, 1, Len(n) - 1))}

\* The nodes in which two filesystems differ.
Changed(f1, f2) ==
    {n \in (DOMAIN f1) \cup (DOMAIN f2) :
        n \notin DOMAIN f1 \/ n \notin DOMAIN f2 \/ f1[n] # f2[n]}

\* The originals directory, the directories leading to it, and what is below.
OriginalsDirNode == <<s_home, s_cltk_data, s_originals>>
OnOriginalsPath(n) == IsPrefix(OriginalsDirNode, n) \/ IsPrefix(n, OriginalsDirNode)

\* C19: no call removes the sentinel file or the directory of a remote
\* corpus that is present, whatever the language, the corpus, and the
\* outcome of the call; and a local import changes nothing but the originals
\* directory (created with the directories leading to it) and what is below.
C19_PresentStaysPresent ==
    [][/\ Present(fs) \subseteq Present(fs')
       /\ LocalImport(last') =>
             /\ \A n \in Changed(fs, fs') : OnOriginalsPath(n)
             /\ \A n \in Changed(fs, fs') :
                   IsPrefix(n, OriginalsDirNode) => (n \notin DOMAIN fs /\ fs'[n] = "dir")]_vars

C19_Witness ==
    /\ Present(last.pre) # {}
    /\ Present(fs) = Present(last.pre)
    /\ LegacyImportFrom(last) /\ last.exc = "none" /\ Changed(last.pre, fs) # {}
    /\ RemoteImport(prev) /\ GitFailure(prev)

(***************************************************************************)
(* import_corpus statement by statement: several processes, each with its  *)
(* own CorpusImporter for latin, run import_corpus against one filesystem. *)
(* A step is one statement of import_corpus with the filesystem calls it   *)
(* makes; Repo.clone_from is entered in one step and returns in another,   *)
(* shutil.copytree lists the source and creates the destination in one     *)
(* step and copies one entry per step.  A process may die between steps.   *)
(***************************************************************************)
MaxRuns == 4

StepCorpora == {s_latin_models_cltk, s_phi5}
StepPaths == {p_PHI5, p_old}
StepOutcomes == {"ok", "fail"}

\* The paths import_corpus computes from the importer and its arguments.
type_dir(q) == make_cltk_path(<<q.language, q.corpus_type>>)
target_dir(q) == join(type_dir(q), q.corpus_name)
target_file(q) == join(target_dir(q), s_README)
git_uri(q) == urljoin(s_github, q.corpus_name \o s_dotgit_suffix)
originals_dir == make_cltk_path(<<s_originals>>)
tlg_originals_dir(q) == make_cltk_path(<<s_originals, q.corpus_name>>)

Running(p) == inflight[p].pc \notin {"idle", "done"} /\ ~inflight[p].crashed
At(p, pc) == inflight[p].pc = pc /\ ~inflight[p].crashed
Goto(p, q) == inflight' = [inflight EXCEPT ![p] = q]
Raise(q, exc) == [q EXCEPT !.pc = "done", !.exc = exc]

\* Lines 138-141 and 173-190: the descriptor is resolved and the branch is
\* chosen; the local branch normalizes local_path.
begin(q, language, corpus_name, local_path) ==
    LET g == _get_corpus_properties(language, corpus_name)
        b == [q EXCEPT !.language = language, !.corpus_name = corpus_name,
                       !.corpus_type = g.properties.type, !.local_path = local_path]
    IN  IF g.exc # "none" THEN Raise(b, g.exc)
        ELSE IF g.properties.location = s_remote THEN [b EXCEPT !.pc = "test_sentinel"]
        ELSE IF g.properties.location # s_local \/ corpus_name \notin {s_phi5, s_phi7, s_tlg}
        THEN [b EXCEPT !.pc = "done"]
        ELSE IF local_path = None THEN Raise(b, "AttributeError")
        ELSE [normalize_local_path(b) EXCEPT !.pc = "ensure_originals"]

\* A process calls import_corpus, for the first time or after its previous
\* call has returned or raised.  The processes being alike, the call is made
\* by the first process that is free.
Free(p) == inflight[p].pc \in {"idle", "done"} /\ ~inflight[p].crashed

Begin(p, corpus_name, local_path) ==
    /\ Free(p)
    /\ \A o \in Procs : o < p => ~Free(o)
    /\ calls < MaxRuns
    /\ calls' = calls + 1
    /\ Goto(p, begin(Idle, s_latin, corpus_name, local_path))
    /\ UNCHANGED <<fs, importer, last, prev, lookup, races>>

\* Line 150: "if not os.path.isfile(target_file)"
TestSentinel(p) ==
    /\ At(p, "test_sentinel")
    /\ Goto(p, [inflight[p] EXCEPT
                  !.saw_file = isfile(fs, target_file(inflight[p])),
                  !.pc = IF ~sentinel_present(fs, target_file(inflight[p]))
                         THEN "ensure_type_dir" ELSE "pull"])
    /\ UNCHANGED <<fs, importer, last, prev, calls, lookup, races>>

\* Lines 151-153: "if not os.path.isdir(type_dir): os.makedirs(type_dir)"
EnsureTypeDir(p) ==
    /\ At(p, "ensure_type_dir")
    /\ fs' = IF ~isdir(fs, type_dir(inflight[p])) THEN makedirs(fs, type_dir(inflight[p])) ELSE fs
    /\ Goto(p, [inflight[p] EXCEPT !.pc = "clone"])
    /\ UNCHANGED <<importer, last, prev, calls, lookup, races>>

\* Another process is at statement pc for the same corpus.
OtherAt(p, pc) ==
    \E o \in Procs \ {p} :
        /\ At(o, pc)
        /\ inflight[o].corpus_name = inflight[p].corpus_name
        /\ inflight[o].language = inflight[p].language

\* Line 156: Repo.clone_from(git_uri, target_dir) is entered.
CallClone(p) ==
    /\ At(p, "clone")
    /\ Goto(p, [inflight[p] EXCEPT !.pc = "cloning"])
    /\ races' = IF OtherAt(p, "cloning") THEN races \cup {"clone"} ELSE races
    /\ UNCHANGED <<fs, importer, last, prev, calls, lookup>>

\* Lines 156-163: clone_from returns or raises.
CloneReturns(p, co) ==
    /\ At(p, "cloning")
    /\ \E r \in {clone_from(fs, git_uri(inflight[p]), target_dir(inflight[p]), co)} :
          /\ fs' = r.fs
          /\ Goto(p, Raise(inflight[p],
                           IF catches("CorpusImportError", r.exc) THEN "none" ELSE r.exc))
    /\ UNCHANGED <<importer, last, prev, calls, lookup, races>>

\* Lines 164-172: the pull.
Pull(p, po) ==
    /\ At(p, "pull")
    /\ \E r \in {pull(fs, target_dir(inflight[p]), po)} :
          /\ fs' = r.fs
          /\ Goto(p, Raise(inflight[p],
                           IF catches("CorpusImportError", r.exc) THEN "none" ELSE r.exc))
    /\ UNCHANGED <<importer, last, prev, calls, lookup, races>>

\* Lines 192-197: "if not os.path.isdir(originals_dir): os.makedirs(...)"
EnsureOriginals(p) ==
    /\ At(p, "ensure_originals")
    /\ fs' = IF ~isdir(fs, originals_dir) THEN makedirs(fs, originals_dir) ELSE fs
    /\ Goto(p, [inflight[p] EXCEPT !.pc = "test_old"])
    /\ UNCHANGED <<importer, last, prev, calls, lookup, races>>

\* Line 200: "if os.path.isdir(tlg_originals_dir)"
TestOld(p) ==
    /\ At(p, "test_old")
    /\ Goto(p, [inflight[p] EXCEPT
                  !.pc = IF isdir(fs, tlg_originals_dir(inflight[p]))
                         THEN "rmtree" ELSE "test_copy"])
    /\ UNCHANGED <<fs, importer, last, prev, calls, lookup, races>>

\* Lines 201-203: shutil.rmtree(tlg_originals_dir); it raises when the
\* directory is no longer there.
Rmtree(p) ==
    /\ At(p, "rmtree")
    /\ IF isdir(fs, tlg_originals_dir(inflight[p]))
       THEN /\ fs' = rmtree(fs, tlg_originals_dir(inflight[p]))
            /\ Goto(p, [inflight[p] EXCEPT !.pc = "test_copy", !.deleted = TRUE,
                                           !.before = fs])
       ELSE /\ fs' = fs
            /\ Goto(p, Raise(inflight[p], "ENOENT"))
    /\ races' = IF OtherAt(p, "copying") THEN races \cup {"delete"} ELSE races
    /\ UNCHANGED <<importer, last, prev, calls, lookup>>

\* Line 205: "if not os.path.isdir(tlg_originals_dir)"
TestCopy(p) ==
    /\ At(p, "test_copy")
    /\ Goto(p, [inflight[p] EXCEPT
                  !.pc = IF ~isdir(fs, tlg_originals_dir(inflight[p]))
                         THEN "copy" ELSE "done"])
    /\ UNCHANGED <<fs, importer, last, prev, calls, lookup, races>>

\* Lines 206, 100-107: copytree lists the source and creates the
\* destination directory; when it raises, _copy_dir_recursive handles the
\* error at once.
StartCopy(p) ==
    /\ At(p, "copy")
    /\ IF copytree(fs, inflight[p].local_path, tlg_originals_dir(inflight[p])).exc = "none"
       THEN /\ fs' = makedirs(fs, tlg_originals_dir(inflight[p]))
            /\ Goto(p, [inflight[p] EXCEPT
                          !.pc = "copying",
                          !.listing = below(fs, components(inflight[p].local_path)),
                          !.todo = below(fs, components(inflight[p].local_path))])
       ELSE \E r \in {_copy_dir_recursive(fs, inflight[p].local_path,
                                          tlg_originals_dir(inflight[p]))} :
               /\ fs' = r.fs
               /\ Goto(p, Raise(inflight[p], r.exc))
    /\ UNCHANGED <<importer, last, prev, calls, lookup, races>>

\* copytree copies one listed entry; it fails when the destination
\* directory or the entry is gone.
CopyOne(p) ==
    /\ At(p, "copying")
    /\ \E r \in inflight[p].todo :
          IF /\ isdir(fs, tlg_originals_dir(inflight[p]))
             /\ exists(fs, components(inflight[p].local_path) \o r)
          THEN /\ fs' = With(fs, [m \in {components(tlg_originals_dir(inflight[p])) \o r} |->
                                   fs[components(inflight[p].local_path) \o r]])
               /\ Goto(p, [inflight[p] EXCEPT !.todo = @ \ {r}])
          ELSE /\ fs' = fs
               /\ Goto(p, Raise(inflight[p], "Error"))
    /\ UNCHANGED <<importer, last, prev, calls, lookup, races>>

\* copytree returns after the last entry.
CopyReturns(p) ==
    /\ At(p, "copying")
    /\ inflight[p].todo = {}
    /\ Goto(p, Raise(inflight[p],
                     IF isdir(fs, tlg_originals_dir(inflight[p])) THEN "none" ELSE "Error"))
    /\ UNCHANGED <<fs, importer, last, prev, calls, lookup, races>>

\* The process dies inside import_corpus, between two statements.
Crash(p) ==
    /\ Running(p)
    /\ Goto(p, [inflight[p] EXCEPT !.crashed = TRUE])
    /\ UNCHANGED <<fs, importer, last, prev, calls, lookup, races>>

\* The next statement of the invocation of process p.
Step(p) ==
    \/ TestSentinel(p)
    \/ EnsureTypeDir(p)
    \/ CallClone(p)
    \/ \E co \in StepOutcomes : CloneReturns(p, co)
    \/ \E po \in StepOutcomes : Pull(p, po)
    \/ EnsureOriginals(p)
    \/ TestOld(p)
    \/ Rmtree(p)
    \/ TestCopy(p)
    \/ StartCopy(p)
    \/ CopyOne(p)
    \/ CopyReturns(p)

\* The invocations of process p, one after the other.
Invocations(p) ==
    \/ \E corpus_name \in StepCorpora, local_path \in StepPaths :
          Begin(p, corpus_name, local_path)
    \/ Step(p)

\* Concurrent invocations: the processes interleave statement by statement.
StepsNext == \E p \in Procs : Invocations(p)

SpecSteps == Init /\ [][StepsNext]_vars

\* One process that may die inside an invocation.
CrashNext == Invocations(1) \/ Crash(1)

SpecCrash == Init /\ [][CrashNext]_vars

(***************************************************************************)
(* Descriptor lookup on its own: a list of descriptors, with or without    *)
(* duplicate names, and a name are given; Resolve scans the list.          *)
(***************************************************************************)
MaxList == 3

\* Descriptors with two names, told apart by their location.
LookupDescriptors ==
    {Descriptor(n, l, s_text) : n \in {s_phi5, s_tlg}, l \in {s_remote, s_local}}

RECURSIVE ListsUpTo(_)
ListsUpTo(k) ==
    IF k = 0 THEN {<<>>}
    ELSE ListsUpTo(k - 1) \cup
         {Append(l, d) : l \in {x \in ListsUpTo(k - 1) : Len(x) = k - 1}, d \in LookupDescriptors}

LookupInit ==
    /\ fs = InitFs
    /\ importer = NoImporter
    /\ last = NoCall
    /\ prev = NoCall
    /\ calls = 0
    /\ inflight = [p \in Procs |-> Idle]
    /\ races = {}
    /\ \E corpora \in ListsUpTo(MaxList), corpus_name \in {s_phi5, s_tlg, s_nope} :
          lookup = [NoLookup EXCEPT !.corpora = corpora, !.corpus_name = corpus_name]

\* self._get_corpus_properties(corpus_name) on the given list.
Resolve ==
    /\ ~lookup.done
    /\ \E r \in {scan_corpora(lookup.corpora, lookup.corpus_name)} :
          lookup' = [lookup EXCEPT !.done = TRUE, !.exc = r.exc, !.properties = r.properties]
    /\ UNCHANGED <<fs, importer, last, prev, calls, inflight, races>>

LookupNext == Resolve

SpecLookup == LookupInit /\ [][LookupNext]_vars

\* The positions of the list that carry the requested name.
Hits == {i \in 1..Len(lookup.corpora) : lookup.corpora[i].name = lookup.corpus_name}

\* C16: resolving a name in a list returns the descriptor at the first
\* position carrying the name, whether or not later positions carry it too,
\* raises CorpusImportError exactly when no position carries it, and leaves
\* the list as it was.
C16_FirstMatchScan ==
    [][Resolve =>
        /\ lookup'.corpora = lookup.corpora
        /\ lookup'.exc = "CorpusImportError" <=> Hits = {}
        /\ lookup'.exc \in {"none", "CorpusImportError"}
        /\ Hits # {} =>
              /\ lookup'.exc = "none"
              /\ \E i \in Hits :
                    /\ \A j \in Hits : i <= j
                    /\ lookup'.properties = lookup.corpora[i]]_vars

C16_Witness ==
    /\ lookup.done /\ lookup.exc = "none"
    /\ Cardinality(Hits) >= 2
    /\ \E i \in Hits : lookup.corpora[i] # lookup.properties

\* Two processes are inside Repo.clone_from for the same target directory.
BothCloning ==
    \E p \in Procs : At(p, "cloning") /\ OtherAt(p, "cloning")

\* C11: import_corpus takes no lock.  An invocation goes on to clone exactly
\* when it read no sentinel file at line 150, also while the other
\* invocation is cloning into the same target, and its rmtree leaves no
\* directory at originals/{corpus_name}, also while the other invocation is
\* copying into it: so both can be cloning into one target, and one can
\* delete the destination the other is copying into.
C11_NoLocking ==
    [][\A p \in Procs :
          /\ TestSentinel(p) =>
                /\ inflight'[p].pc = "pull" <=> isfile(fs, target_file(inflight[p]))
                /\ inflight'[p].pc = "ensure_type_dir" <=> ~isfile(fs, target_file(inflight[p]))
          /\ CallClone(p) => ~inflight[p].saw_file
          /\ Rmtree(p) => ~isdir(fs', tlg_originals_dir(inflight[p]))]_vars

C11_Witness ==
    /\ BothCloning
    /\ \A p \in Procs : ~inflight[p].saw_file
    /\ "delete" \in races

\* The destination node of the local import q, and q being between its
\* delete and the end of its copy.
DestinationNode(q) == components(tlg_originals_dir(q))
MidOverwrite(q) == q.deleted /\ q.pc \in {"test_copy", "copy", "copying"}

\* No node of f below the data root holds the content v.
NowhereUnderRoot(f, v) ==
    \A n \in DOMAIN f : IsPrefix(<<s_home, s_cltk_data>>, n) => f[n] # v

\* C12: from the delete of originals/{corpus_name} to the end of the copy
\* the import has written nothing outside the destination, so it has kept
\* no copy of the old content, and the destination is missing or holds only
\* the entries copied so far; a process that dies there leaves that state.
C12_OverwriteNotAtomic ==
    \A p \in Procs :
        MidOverwrite(inflight[p]) =>
            /\ \A n \in Changed(inflight[p].before, fs) :
                  IsPrefix(DestinationNode(inflight[p]), n)
            /\ ~exists(fs, DestinationNode(inflight[p])) \/
                  node_isdir(fs, DestinationNode(inflight[p]))
            /\ \A r \in below(fs, DestinationNode(inflight[p])) :
                  /\ r \in inflight[p].listing \ inflight[p].todo
                  /\ fs[DestinationNode(inflight[p]) \o r] =
                        fs[components(inflight[p].local_path) \o r]

C12_Witness ==
    \E p \in Procs :
        /\ inflight[p].crashed /\ MidOverwrite(inflight[p])
        /\ below(fs, DestinationNode(inflight[p])) # {}
        /\ inflight[p].todo # {}
        /\ below(inflight[p].before, DestinationNode(inflight[p])) # {}
        /\ \A r \in below(inflight[p].before, DestinationNode(inflight[p])) :
              NowhereUnderRoot(fs, inflight[p].before[DestinationNode(inflight[p]) \o r])

====
